---- MODULE Spec2Model ----
(***************************************************************************)
(* The phonebook API of server.js: an Express router over one SQLite       *)
(* table, contacts(id TEXT PRIMARY KEY, name TEXT NOT NULL, phone TEXT NOT *)
(* NULL, email TEXT DEFAULT '').                                           *)
(*                                                                         *)
(* Strings are sequences of byte codes (their UTF-8 bytes), so that the    *)
(* ORDER BY of the list query compares them as SQLite's BINARY collation   *)
(* does.  A JSON value of a request body is a record [t, v]: t its         *)
(* JavaScript type, v its content.  A column value is a record [t, v] with *)
(* t one of SQLite's storage classes.                                      *)
(***************************************************************************)
EXTENDS Integers, Sequences, FiniteSets, TLC

VARIABLES
    rows,     \* the contacts table: its rows in rowid order (the file on disk)
    used,     \* the ids uuid() has produced and the table has held
    up,       \* whether the process is running (the table outlives it)
    req,      \* the last event: the request a handler has just served
    resp,     \* the response to it
    gone,     \* history: the ids a DELETE has removed (answered 204)
    call,     \* per connection: the request in flight and its handler's locals
    running,  \* the connection whose handler the event loop is executing
    order     \* history: the connections whose responses are out, oldest first

vars == <<rows, used, up, req, resp, gone, call, running, order>>

----------------------------------------------------------------------------
(* Bounds of the model.                                                    *)

\* How many distinct identifiers uuid() can produce in a run.
MaxUuid == 3

\* How many connections send requests concurrently.
MaxClients == 2

----------------------------------------------------------------------------
(* Text.                                                                   *)

Empty == <<>>
Amy == <<65, 109, 121>>
Zed == <<90, 101, 100>>
One == <<49>>
Mail == <<122, 64, 120>>

RonLevi == <<82, 111, 110, 32, 76, 101, 118, 105>>
RonPhone == <<48, 53, 48, 45, 49, 49, 49, 45, 50, 50, 51, 51>>
RonMail == <<114, 111, 110, 64, 101, 120, 97, 109, 112, 108, 101, 46, 99, 111, 109>>
MarineAzulay == <<77, 97, 114, 105, 110, 101, 32, 65, 122, 117, 108, 97, 121>>
MarinePhone == <<48, 53, 50, 45, 52, 52, 52, 45, 53, 53, 54, 54>>
MarineMail == <<109, 97, 114, 105, 110, 101, 64, 101, 120, 97, 109, 112, 108, 101, 46, 99, 111, 109>>

Min(a, b) == IF a <= b THEN a ELSE b

\* memcmp over the common prefix, then the shorter string first: the BINARY
\* collation.  Negative, zero or positive as a sorts before, with or after b.
BinaryCompare(a, b) ==
    LET n == Min(Len(a), Len(b))
        diff == {i \in 1..n : a[i] # b[i]}
    IN  IF diff = {}
        THEN Len(a) - Len(b)
        ELSE LET k == CHOOSE i \in diff : \A j \in diff : i <= j
             IN  a[k] - b[k]

----------------------------------------------------------------------------
(* JSON values of a request body, as JavaScript sees them.                 *)

Undefined == [t |-> "undefined", v |-> <<>>]
Null == [t |-> "null", v |-> <<>>]
Str(s) == [t |-> "string", v |-> s]
Num(n) == [t |-> "number", v |-> <<n>>]
Bool(b) == [t |-> "boolean", v |-> <<IF b THEN 1 ELSE 0>>]
Arr(items) == [t |-> "array", v |-> items]
Obj == [t |-> "object", v |-> <<>>]

\* !x is false: what the handlers' `!name || !phone` lets through.
Truthy(x) ==
    CASE x.t = "undefined" -> FALSE
      [] x.t = "null" -> FALSE
      [] x.t = "string" -> Len(x.v) > 0
      [] x.t = "number" -> x.v[1] # 0
      [] x.t = "boolean" -> x.v[1] = 1
      [] OTHER -> TRUE

\* A request body: none sent (req.body is undefined), or a JSON object.
Body(kind, name, phone, email) ==
    [kind |-> kind, name |-> name, phone |-> phone, email |-> email]
NoBody == Body("missing", Undefined, Undefined, Undefined)
Json(name, phone, email) == Body("object", name, phone, email)

\* Mutant of Destructure: the email has no default.
DestructureNoDefault(b) == [name |-> b.name, phone |-> b.phone, email |-> b.email]

\* const { name, phone, email = '' } = req.body || {}
Destructure(b) ==
    [name |-> b.name,
     phone |-> b.phone,
     email |-> IF b.email.t = "undefined" THEN Str(Empty) ELSE b.email]

\* Mutant of Invalid: only the name is checked.
InvalidNameOnly(d) == ~Truthy(d.name)

\* if (!name || !phone)
Invalid(d) == ~Truthy(d.name) \/ ~Truthy(d.phone)

----------------------------------------------------------------------------
(* Column values and the binding of statement parameters.                  *)

SqlNull == [t |-> "NULL", v |-> <<>>]
SqlText(s) == [t |-> "TEXT", v |-> s]
SqlReal(n) == [t |-> "REAL", v |-> <<n>>]

RECURSIVE Digits(_)
Digits(n) == IF n < 10 THEN <<48 + n>> ELSE Digits(n \div 10) \o <<48 + (n % 10)>>

\* The text form of a whole REAL, as SQLite renders it: 5 is '5.0'.
RealText(n) == Digits(n) \o <<46, 48>>

\* A value about to enter a TEXT column: numbers are stored as their text.
TextAffinity(x) == IF x.t = "REAL" THEN SqlText(RealText(x.v[1])) ELSE x

\* Whether the driver can bind the JavaScript value as one parameter.
Bindable(x) == x.t \in {"string", "number", "null", "undefined"}

\* One JavaScript value as one parameter.
BindValue(x) ==
    CASE x.t = "string" -> SqlText(x.v)
      [] x.t = "number" -> SqlReal(x.v[1])
      [] OTHER -> SqlNull

BindFailed == <<[t |-> "THROWN", v |-> <<>>]>>

\* The driver's binding of a call's arguments to a statement of anonymous
\* parameters: an array argument gives its elements as parameters, a plain
\* object gives the named parameters (none here), any other value is one
\* parameter.  BindFailed when a value cannot be bound.
RECURSIVE Bind(_)
Bind(args) ==
    IF args = <<>> THEN <<>>
    ELSE LET x == Head(args)
             rest == Bind(Tail(args))
             mine == CASE x.t = "array" ->
                             IF \A i \in 1..Len(x.v) : Bindable(x.v[i])
                             THEN [i \in 1..Len(x.v) |-> BindValue(x.v[i])]
                             ELSE BindFailed
                       [] x.t = "object" -> <<>>
                       [] Bindable(x) -> <<BindValue(x)>>
                       [] OTHER -> BindFailed
         IN  IF mine = BindFailed \/ rest = BindFailed THEN BindFailed
             ELSE mine \o rest

\* The parameters of a run of a statement with `count` placeholders, or
\* BindFailed (the call throws and the statement does not run).
Params(args, count) ==
    LET p == Bind(args)
    IN  IF p # BindFailed /\ Len(p) = count THEN p ELSE BindFailed

\* An identifier, as the string the handlers pass to the statements.
Id(i) == Str(<<i>>)

----------------------------------------------------------------------------
(* The table and the prepared statements.                                  *)

Row(id, name, phone, email) ==
    [id |-> id, name |-> name, phone |-> phone, email |-> email]

\* The indices of the rows WHERE id = x (no row when x is NULL).
Matching(tbl, x) == {i \in 1..Len(tbl) : x.t # "NULL" /\ tbl[i].id = x}

\* The table's constraints on a row: name and phone NOT NULL.
NotNull(r) == r.name.t # "NULL" /\ r.phone.t # "NULL"

\* id TEXT PRIMARY KEY: no row of the table has the id already.
PrimaryKeyFree(tbl, x) == Matching(tbl, x) = {}

Outcome(threw, tbl, changes) == [threw |-> threw, rows |-> tbl, changes |-> changes]

\* stmtAdd.run(...args): INSERT INTO contacts(id, name, phone, email).
stmtAdd(tbl, args) ==
    LET p == Params(args, 4)
    IN  IF p = BindFailed THEN Outcome(TRUE, tbl, 0)
        ELSE LET r == Row(TextAffinity(p[1]), TextAffinity(p[2]),
                          TextAffinity(p[3]), TextAffinity(p[4]))
             IN  IF NotNull(r) /\ PrimaryKeyFree(tbl, r.id)
                 THEN Outcome(FALSE, Append(tbl, r), 1)
                 ELSE Outcome(TRUE, tbl, 0)

\* stmtGet.get(id): the row WHERE id = ?, as a sequence of no or one row.
stmtGet(tbl, args) ==
    LET p == Params(args, 1)
        hit == IF p = BindFailed THEN {} ELSE Matching(tbl, p[1])
    IN  IF hit = {} THEN <<>>
        ELSE <<tbl[CHOOSE i \in hit : \A j \in hit : i <= j]>>

\* stmtUpd.run(...args): UPDATE contacts SET name, phone, email WHERE id = ?.
stmtUpd(tbl, args) ==
    LET p == Params(args, 4)
    IN  IF p = BindFailed THEN Outcome(TRUE, tbl, 0)
        ELSE LET hit == Matching(tbl, p[4])
                 new == [i \in 1..Len(tbl) |->
                            IF i \in hit
                            THEN Row(tbl[i].id, TextAffinity(p[1]),
                                     TextAffinity(p[2]), TextAffinity(p[3]))
                            ELSE tbl[i]]
             IN  IF \A i \in hit : NotNull(new[i])
                 THEN Outcome(FALSE, new, Cardinality(hit))
                 ELSE Outcome(TRUE, tbl, 0)

RECURSIVE Without(_, _)
\* The rows of tbl outside the index set, in their order.
Without(tbl, hit) ==
    IF tbl = <<>> THEN <<>>
    ELSE LET n == Len(tbl)
             front == Without(SubSeq(tbl, 1, n - 1), hit)
         IN  IF n \in hit THEN front ELSE Append(front, tbl[n])

\* Mutant of stmtDel: the DELETE has no WHERE clause.
stmtDelAll(tbl, args) ==
    IF Params(args, 1) = BindFailed THEN Outcome(TRUE, tbl, 0)
    ELSE Outcome(FALSE, <<>>, Len(tbl))

\* stmtDel.run(id): DELETE FROM contacts WHERE id = ?.
stmtDel(tbl, args) ==
    LET p == Params(args, 1)
    IN  IF p = BindFailed THEN Outcome(TRUE, tbl, 0)
        ELSE LET hit == Matching(tbl, p[1])
             IN  Outcome(FALSE, Without(tbl, hit), Cardinality(hit))

\* Mutant of stmtAll: the SELECT has no ORDER BY.
stmtAllUnordered(tbl) == {tbl}

\* stmtAll.all(): every row, ORDER BY name.  The order of rows of equal name
\* is the engine's choice, so this is the set of the results it may give.
stmtAll(tbl) ==
    LET n == Len(tbl)
    IN  {[i \in 1..n |-> tbl[p[i]]] : p \in
            {q \in Permutations(1..n) :
                \A i, j \in 1..n :
                    i < j => BinaryCompare(tbl[q[i]].name.v, tbl[q[j]].name.v) <= 0}}

\* SELECT COUNT(*) AS cnt FROM contacts
rowCount(tbl) == Len(tbl)

\* uuid(): an identifier no contact has had (a collision of random 122-bit
\* identifiers is left out).  No handler looks into an identifier, so the
\* model draws them in a fixed order; the empty set once the bound is reached.
uuid(taken) ==
    LET free == (1..MaxUuid) \ taken
    IN  {i \in free : \A j \in free : i <= j}

----------------------------------------------------------------------------
(* Requests and responses.                                                 *)

\* A column value as the driver returns it to JavaScript.
ToJs(x) == IF x.t = "NULL" THEN Null ELSE Str(x.v)

Contact(r) ==
    [id |-> ToJs(r.id), name |-> ToJs(r.name), phone |-> ToJs(r.phone),
     email |-> ToJs(r.email)]

Contacts(list) == [i \in 1..Len(list) |-> Contact(list[i])]

Request(op, id, b) == [op |-> op, id |-> id, body |-> b]

\* A response: its status and its body, which is a contact or a list of them
\* (in list), an error message, the info object, or nothing.
Response(status, kind, list, error) ==
    [status |-> status, kind |-> kind, list |-> list, error |-> error]

NoResponse == Response(0, "none", <<>>, "")

\* res.json(row) for the result of stmtGet.get: absent when there is no row.
JsonRow(status, got) ==
    Response(status, IF got = <<>> THEN "absent" ELSE "contact", Contacts(got), "")

JsonError(status, message) == Response(status, "error", <<>>, message)

\* What Express answers when a handler throws.
Thrown == JsonError(500, "Internal Server Error")

\* res.status(204).send()
NoContent == Response(204, "empty", <<>>, "")

Required == JsonError(400, "Name and phone are required.")
NotFound == JsonError(404, "Contact not found.")

\* The identifiers a client may put in a path: those uuid() can produce and
\* one (0) it never does.
PathIds == 0..MaxUuid

\* The request bodies clients send: none, objects
\* that lack a name or a phone or carry an empty one, well-formed contacts
\* (one with a null email), and objects whose name is not a string.
Bodies ==
    {NoBody,
     Json(Undefined, Str(One), Undefined),
     Json(Str(Amy), Undefined, Undefined),
     Json(Str(Empty), Str(One), Undefined),
     Json(Str(Amy), Str(Empty), Undefined),
     Json(Str(Amy), Str(One), Undefined),
     Json(Str(Zed), Str(One), Str(Mail)),
     Json(Str(Zed), Str(One), Null),
     Json(Bool(TRUE), Str(One), Undefined),
     Json(Arr(<<Str(Empty)>>), Str(One), Undefined)}

----------------------------------------------------------------------------
(* The process: startup, and one action per route.  A handler is one       *)
(* synchronous function, so it acts here as one step.                      *)

Clients == 1..MaxClients

\* A connection: where its handler is (pc), the request, the handler's
\* locals (before, info) and the response once it is out.
Call(pc, r, before, info, answer) ==
    [pc |-> pc, req |-> r, before |-> before, info |-> info, resp |-> answer]

Idle == Call("idle", Request("none", 0, NoBody), <<>>, 0, NoResponse)

Init ==
    /\ rows = <<>>
    /\ used = {}
    /\ up = FALSE
    /\ req = Request("none", 0, NoBody)
    /\ resp = NoResponse
    /\ gone = {}
    /\ call = [c \in Clients |-> Idle]
    /\ running = 0
    /\ order = <<>>

\* Mutant of SeedNeeded: the test is inverted.
SeedInverted(tbl) == rowCount(tbl) # 0

\* if (rowCount === 0)
SeedNeeded(tbl) == rowCount(tbl) = 0

\* The process starts, for the first time or again after it ended (the
\* database file stays): the module's top level creates the table if it is
\* not there and seeds it with two contacts if it has no row.
Startup ==
    /\ up' = TRUE
    /\ req' = Request("startup", 0, NoBody)
    /\ resp' = NoResponse
    /\ IF SeedNeeded(rows)
       THEN \E a \in uuid(used) : \E b \in uuid(used \cup {a}) :
              LET first == stmtAdd(rows, <<Id(a), Str(RonLevi), Str(RonPhone),
                                          Str(RonMail)>>)
                  second == stmtAdd(first.rows, <<Id(b), Str(MarineAzulay),
                                                 Str(MarinePhone), Str(MarineMail)>>)
              IN  /\ rows' = second.rows
                  /\ used' = used \cup {a, b}
       ELSE UNCHANGED <<rows, used>>
    /\ UNCHANGED <<gone, call, running, order>>

\* app.get('/')
GetRoot ==
    /\ up
    /\ req' = Request("GET /", 0, NoBody)
    /\ resp' = Response(200, "info", <<>>, "")
    /\ UNCHANGED <<rows, used, up, gone, call, running, order>>

\* app.get('/contacts')
GetContacts ==
    /\ up
    /\ req' = Request("GET /contacts", 0, NoBody)
    /\ \E list \in stmtAll(rows) : resp' = Response(200, "list", Contacts(list), "")
    /\ UNCHANGED <<rows, used, up, gone, call, running, order>>

\* app.post('/contacts')
PostContacts ==
    /\ up
    /\ \E b \in Bodies :
         /\ req' = Request("POST /contacts", 0, b)
         /\ LET d == Destructure(b)
            IN  IF Invalid(d)
                THEN resp' = Required /\ UNCHANGED <<rows, used>>
                ELSE \E id \in uuid(used) :
                       LET add == stmtAdd(rows, <<Id(id), d.name, d.phone, d.email>>)
                           created == stmtGet(add.rows, <<Id(id)>>)
                       IN  IF add.threw
                           THEN resp' = Thrown /\ UNCHANGED <<rows, used>>
                           ELSE /\ rows' = add.rows
                                /\ used' = used \cup {id}
                                /\ resp' = JsonRow(201, created)
    /\ UNCHANGED <<up, gone, call, running, order>>

\* Mutant of Missing: the update goes on without the row.
MissingNever(before) == FALSE

\* if (!before)
Missing(before) == before = <<>>

\* app.put('/contacts/:id')
PutContact ==
    /\ up
    /\ \E id \in PathIds, b \in Bodies :
         /\ req' = Request("PUT /contacts/:id", id, b)
         /\ LET d == Destructure(b)
                before == stmtGet(rows, <<Id(id)>>)
                upd == stmtUpd(rows, <<d.name, d.phone, d.email, Id(id)>>)
                updated == stmtGet(upd.rows, <<Id(id)>>)
            IN  IF Invalid(d) THEN resp' = Required /\ UNCHANGED rows
                ELSE IF Missing(before) THEN resp' = NotFound /\ UNCHANGED rows
                ELSE IF upd.threw THEN resp' = Thrown /\ UNCHANGED rows
                ELSE rows' = upd.rows /\ resp' = JsonRow(200, updated)
    /\ UNCHANGED <<used, up, gone, call, running, order>>

\* app.delete('/contacts/:id')
DeleteContact ==
    /\ up
    /\ \E id \in PathIds :
         LET info == stmtDel(rows, <<Id(id)>>)
         IN  /\ req' = Request("DELETE /contacts/:id", id, NoBody)
             /\ rows' = info.rows
             /\ resp' = IF info.changes = 0 THEN NotFound ELSE NoContent
             /\ gone' = IF info.changes = 0 THEN gone ELSE gone \cup {id}
    /\ UNCHANGED <<used, up, call, running, order>>

Next ==
    \/ Startup
    \/ GetRoot
    \/ GetContacts
    \/ PostContacts
    \/ PutContact
    \/ DeleteContact

Spec == Init /\ [][Next]_vars

----------------------------------------------------------------------------
(* Requests in flight.  Connections send requests concurrently; the event  *)
(* loop calls one handler at a time and a handler, which awaits nothing,   *)
(* runs to its response before the next is called.  Here each statement of *)
(* a handler is a step of its own, taken when the event loop lets it.      *)

\* Mutant of Turn: a handler yields between its statements (as one that
\* awaited each of them would).
TurnAny(c) == TRUE

\* The event loop is free, or is inside the handler of connection c.
Turn(c) == running = 0 \/ running = c

\* The requests the connections send: updates and a delete of the first
\* contact of the seed (1), a create, and a delete of the contact it
\* creates (3).
ConcRequests ==
    {Request("PUT /contacts/:id", 1, Json(Str(Amy), Str(One), Undefined)),
     Request("PUT /contacts/:id", 1, Json(Str(Zed), Str(One), Str(Mail))),
     Request("DELETE /contacts/:id", 1, NoBody),
     Request("DELETE /contacts/:id", 3, NoBody),
     Request("POST /contacts", 0, Json(Str(Amy), Str(One), Undefined))}

\* The first start of the process.
Boot == ~up /\ Startup

\* A connection sends its next request once it has the response to its last.
Send(c) ==
    /\ up
    /\ call[c].pc \in {"idle", "done"}
    /\ \E r \in ConcRequests :
         call' = [call EXCEPT ![c] = Call("queued", r, <<>>, 0, NoResponse)]
    /\ order' = SelectSeq(order, LAMBDA d : d # c)
    /\ UNCHANGED <<rows, used, up, req, resp, gone, running>>

\* The handler of c goes on to its statement pc, keeping the event loop.
Goto(c, pc, before, info) ==
    /\ call' = [call EXCEPT ![c] = Call(pc, @.req, before, info, NoResponse)]
    /\ running' = c
    /\ order' = order

\* The handler of c sends its response and returns to the event loop.
Finish(c, answer) ==
    /\ call' = [call EXCEPT ![c] = Call("done", @.req, @.before, @.info, answer)]
    /\ running' = 0
    /\ order' = Append(order, c)

\* app.put('/contacts/:id'): the destructuring and the validation
PutBegin(c) ==
    /\ call[c].pc = "queued" /\ call[c].req.op = "PUT /contacts/:id"
    /\ Turn(c)
    /\ IF Invalid(Destructure(call[c].req.body)) THEN Finish(c, Required)
       ELSE Goto(c, "put_get", <<>>, 0)
    /\ UNCHANGED <<rows, used, up, req, resp, gone>>

\* const before = stmtGet.get(id); if (!before) return 404
PutGet(c) ==
    /\ call[c].pc = "put_get"
    /\ Turn(c)
    /\ LET before == stmtGet(rows, <<Id(call[c].req.id)>>)
       IN  IF Missing(before) THEN Finish(c, NotFound)
           ELSE Goto(c, "put_upd", before, 0)
    /\ UNCHANGED <<rows, used, up, req, resp, gone>>

\* stmtUpd.run(name, phone, email, id)
PutUpd(c) ==
    /\ call[c].pc = "put_upd"
    /\ Turn(c)
    /\ LET d == Destructure(call[c].req.body)
           upd == stmtUpd(rows, <<d.name, d.phone, d.email, Id(call[c].req.id)>>)
       IN  IF upd.threw THEN Finish(c, Thrown) /\ UNCHANGED rows
           ELSE rows' = upd.rows /\ Goto(c, "put_read", call[c].before, 0)
    /\ UNCHANGED <<used, up, req, resp, gone>>

\* const updated = stmtGet.get(id); res.json(updated)
PutRead(c) ==
    /\ call[c].pc = "put_read"
    /\ Turn(c)
    /\ Finish(c, JsonRow(200, stmtGet(rows, <<Id(call[c].req.id)>>)))
    /\ UNCHANGED <<rows, used, up, req, resp, gone>>

\* app.delete('/contacts/:id'): const info = stmtDel.run(id)
DelRun(c) ==
    /\ call[c].pc = "queued" /\ call[c].req.op = "DELETE /contacts/:id"
    /\ Turn(c)
    /\ LET info == stmtDel(rows, <<Id(call[c].req.id)>>)
       IN  /\ rows' = info.rows
           /\ gone' = IF info.changes = 0 THEN gone ELSE gone \cup {call[c].req.id}
           /\ Goto(c, "del_resp", <<>>, info.changes)
    /\ UNCHANGED <<used, up, req, resp>>

\* if (info.changes === 0) return 404; res.status(204).send()
DelRespond(c) ==
    /\ call[c].pc = "del_resp"
    /\ Turn(c)
    /\ Finish(c, IF call[c].info = 0 THEN NotFound ELSE NoContent)
    /\ UNCHANGED <<rows, used, up, req, resp, gone>>

\* app.post('/contacts'): the destructuring and the validation (not begun
\* once the model has no identifier left to draw)
PostBegin(c) ==
    /\ call[c].pc = "queued" /\ call[c].req.op = "POST /contacts"
    /\ Turn(c)
    /\ uuid(used) # {}
    /\ IF Invalid(Destructure(call[c].req.body)) THEN Finish(c, Required)
       ELSE Goto(c, "post_add", <<>>, 0)
    /\ UNCHANGED <<rows, used, up, req, resp, gone>>

\* const id = uuid(); stmtAdd.run(id, name, phone, email)
PostAdd(c) ==
    /\ call[c].pc = "post_add"
    /\ Turn(c)
    /\ \E id \in uuid(used) :
         LET d == Destructure(call[c].req.body)
             add == stmtAdd(rows, <<Id(id), d.name, d.phone, d.email>>)
         IN  IF add.threw THEN Finish(c, Thrown) /\ UNCHANGED <<rows, used>>
             ELSE /\ rows' = add.rows
                  /\ used' = used \cup {id}
                  /\ Goto(c, "post_read", <<>>, id)
    /\ UNCHANGED <<up, req, resp, gone>>

\* const created = stmtGet.get(id); res.status(201).json(created)
PostRead(c) ==
    /\ call[c].pc = "post_read"
    /\ Turn(c)
    /\ Finish(c, JsonRow(201, stmtGet(rows, <<Id(call[c].info)>>)))
    /\ UNCHANGED <<rows, used, up, req, resp, gone>>

NextConc ==
    \/ Boot
    \/ \E c \in Clients :
         \/ Send(c)
         \/ PutBegin(c)
         \/ PutGet(c)
         \/ PutUpd(c)
         \/ PutRead(c)
         \/ DelRun(c)
         \/ DelRespond(c)
         \/ PostBegin(c)
         \/ PostAdd(c)
         \/ PostRead(c)

SpecConc == Init /\ [][NextConc]_vars

----------------------------------------------------------------------------
(* Vocabulary of the properties.                                           *)

POST == "POST /contacts"
PUT == "PUT /contacts/:id"
DELETE == "DELETE /contacts/:id"
LIST == "GET /contacts"

\* The ids of the stored rows, as path identifiers.
StoredIds == {i \in PathIds : \E k \in 1..Len(rows) : rows[k].id = SqlText(<<i>>)}

\* A field that is missing from the body or is the empty string.
Lacking(x) == x.t = "undefined" \/ (x.t = "string" /\ x.v = <<>>)

\* A field that is a non-empty JSON string.
NonEmptyString(x) == x.t = "string" /\ x.v # <<>>

\* A body with a non-empty name and a non-empty phone.
ValidBody(b) == b.kind = "object" /\ NonEmptyString(b.name) /\ NonEmptyString(b.phone)

RECURSIVE LexLeq(_, _)
\* a is b or comes before it in lexicographic order of the bytes.
LexLeq(a, b) ==
    IF a = <<>> THEN TRUE
    ELSE IF b = <<>> THEN FALSE
    ELSE IF Head(a) # Head(b) THEN Head(a) < Head(b)
    ELSE LexLeq(Tail(a), Tail(b))

\* s holds exactly the elements of t, each as often.
SameElements(s, t) ==
    /\ Len(s) = Len(t)
    /\ \E p \in Permutations(1..Len(s)) : \A i \in 1..Len(s) : s[i] = t[p[i]]

----------------------------------------------------------------------------
(* C1: every stored row has an id no other stored row has, and a non-empty *)
(* name and a non-empty phone.                                             *)
C1_RowsWellFormed ==
    \A i \in 1..Len(rows) :
        /\ \A j \in 1..Len(rows) : rows[j].id = rows[i].id => j = i
        /\ rows[i].name.t = "TEXT" /\ rows[i].name.v # <<>>
        /\ rows[i].phone.t = "TEXT" /\ rows[i].phone.v # <<>>

(* C2: a POST whose body is missing, or whose name or phone is missing or  *)
(* empty, is answered 400 and leaves the table as it was.                  *)
C2_InvalidPostRejected ==
    [][(req'.op = POST /\ (req'.body.kind = "missing" \/ Lacking(req'.body.name)
                                                    \/ Lacking(req'.body.phone)))
        => (resp'.status = 400 /\ rows' = rows)]_vars

C2_Witness ==
    /\ req.op = POST
    /\ req.body = Json(Undefined, Str(One), Undefined)
    /\ resp.status = 400
    /\ Len(rows) = 2

(* C3: a PUT with a valid body on an id that no stored row has is answered *)
(* 404 and leaves the table as it was.                                     *)
C3_UpdateMissing ==
    [][(req'.op = PUT /\ ValidBody(req'.body) /\ req'.id \notin StoredIds)
        => (resp'.status = 404 /\ rows' = rows)]_vars

C3_Witness ==
    /\ req.op = PUT
    /\ ValidBody(req.body)
    /\ req.id \notin StoredIds
    /\ resp.status = 404
    /\ Len(rows) > 0

(* C4: a DELETE on a stored id is answered 204 and removes that row and no *)
(* other; every later DELETE on that id is answered 404 and changes        *)
(* nothing, whatever requests came in between.                             *)
C4_DeleteOnce ==
    [][/\ (req'.op = DELETE /\ req'.id \in StoredIds)
            => /\ resp'.status = 204
               /\ rows' = SelectSeq(rows, LAMBDA r : r.id # SqlText(<<req'.id>>))
               /\ Len(rows') = Len(rows) - 1
       /\ (req'.op = DELETE /\ req'.id \in gone)
            => (resp'.status = 404 /\ rows' = rows)]_vars

C4_Witness ==
    /\ req.op = DELETE
    /\ req.id \in gone
    /\ resp.status = 404
    /\ \E k \in 1..Len(rows) : rows[k].id = SqlText(<<MaxUuid>>)

(* C5: GET /contacts answers 200 with exactly the stored rows, each once,  *)
(* in ascending lexicographic order of name; a contact named Amy comes     *)
(* before one named Zed.                                                   *)
C5_ListSorted ==
    req.op = LIST =>
        /\ resp.status = 200
        /\ resp.kind = "list"
        /\ SameElements(resp.list, Contacts(rows))
        /\ \A i, j \in 1..Len(resp.list) :
              /\ i < j => LexLeq(resp.list[i].name.v, resp.list[j].name.v)
              /\ (resp.list[i].name = Str(Amy) /\ resp.list[j].name = Str(Zed)) => i < j

C5_Witness ==
    /\ req.op = LIST
    /\ \E i, j \in 1..Len(rows) :
          i < j /\ rows[i].name = SqlText(Zed) /\ rows[j].name = SqlText(Amy)

(* C6: a POST with a non-empty name and phone and no email is answered 201 *)
(* with a contact that has an id no stored row had, the submitted name and *)
(* phone and the empty string as email; the table gains that row and no    *)
(* other changes; a GET /contacts that follows contains the contact.       *)
C6_CreateRoundTrip ==
    /\ [][(req'.op = POST /\ ValidBody(req'.body) /\ req'.body.email = Undefined)
           => /\ resp'.status = 201
              /\ resp'.kind = "contact"
              /\ \A k \in 1..Len(rows) : Contact(rows[k]).id # resp'.list[1].id
              /\ resp'.list[1].name = req'.body.name
              /\ resp'.list[1].phone = req'.body.phone
              /\ resp'.list[1].email = Str(Empty)
              /\ Contacts(rows') = Append(Contacts(rows), resp'.list[1])]_vars
    /\ [][(req.op = POST /\ resp.status = 201 /\ req'.op = LIST)
           => \E i \in 1..Len(resp'.list) : resp'.list[i] = resp.list[1]]_vars

C6_Witness ==
    /\ req.op = POST
    /\ req.body = Json(Str(Amy), Str(One), Undefined)
    /\ resp.status = 201
    /\ Len(rows) = 3
    /\ Contact(rows[3]) = resp.list[1]

\* The two contacts of the seed, without their ids.
SeedContacts ==
    <<[name |-> SqlText(RonLevi), phone |-> SqlText(RonPhone), email |-> SqlText(RonMail)],
      [name |-> SqlText(MarineAzulay), phone |-> SqlText(MarinePhone),
       email |-> SqlText(MarineMail)]>>

(* C7: a start over a table with no row leaves exactly the two seed        *)
(* contacts, Ron Levi and Marine Azulay; a start over a table with a row   *)
(* adds, changes and removes nothing.                                      *)
C7_SeedOnlyWhenEmpty ==
    [][req'.op = "startup"
        => IF Len(rows) = 0
           THEN /\ Len(rows') = 2
                /\ rows'[1].id # rows'[2].id
                /\ \A k \in 1..2 :
                      [name |-> rows'[k].name, phone |-> rows'[k].phone,
                       email |-> rows'[k].email] = SeedContacts[k]
           ELSE rows' = rows]_vars

\* A restart over a table that clients have changed.
C7_Witness ==
    /\ req.op = "startup"
    /\ Len(rows) = 1
    /\ rows[1].name = SqlText(Zed)
    /\ gone # {}

(* C8: a PUT answered 200 changes only the name, phone and email of the    *)
(* row of its id: the ids are the same rows in the same places, every      *)
(* other row is as it was, and the response is that row, with the          *)
(* submitted name and phone.                                               *)
C8_UpdateFrame ==
    [][(req'.op = PUT /\ resp'.status = 200)
        => /\ Len(rows') = Len(rows)
           /\ \A k \in 1..Len(rows) :
                 /\ rows'[k].id = rows[k].id
                 /\ rows[k].id # SqlText(<<req'.id>>) => rows'[k] = rows[k]
           /\ resp'.kind = "contact"
           /\ resp'.list[1].id = Id(req'.id)
           /\ \E k \in 1..Len(rows') : Contact(rows'[k]) = resp'.list[1]
           /\ resp'.list[1].name = req'.body.name
           /\ resp'.list[1].phone = req'.body.phone]_vars

(* C9: the email of every stored contact is a string; a POST or PUT that   *)
(* succeeds with a body whose email is absent or null stores and returns   *)
(* the empty string as email.                                              *)
C9_EmailIsString ==
    /\ \A k \in 1..Len(rows) : rows[k].email.t = "TEXT"
    /\ (req.op \in {POST, PUT} /\ resp.status \in {200, 201}
            /\ req.body.email \in {Undefined, Null})
        => /\ resp.list[1].email = Str(Empty)
           /\ \A k \in 1..Len(rows) :
                 Contact(rows[k]).id = resp.list[1].id => rows[k].email = SqlText(Empty)

\* Connection c has the response to its request.
Answered(c, op, status) ==
    call[c].pc = "done" /\ call[c].req.op = op /\ call[c].resp.status = status

\* The response of c went out before that of d.
Earlier(c, d) ==
    \E i, j \in 1..Len(order) : i < j /\ order[i] = c /\ order[j] = d

\* The handler of c is between its first statement and its response.
InHandler(c) == call[c].pc \notin {"idle", "queued", "done"}

(* C10: with requests in flight together, each takes effect as one step:   *)
(* while a handler is between its statements no other request changes the  *)
(* table; a PUT answered 200 carries the row of its id with the values it  *)
(* submitted, and that row is stored when the response goes out; of a PUT  *)
(* and a DELETE of one id that are answered 200 and 204 the PUT was first, *)
(* and a PUT answered after the DELETE's 204 is answered 404.              *)
C10_HandlersAtomic ==
    /\ [](\A c \in Clients :
            Answered(c, PUT, 200)
              => /\ call[c].resp.kind = "contact"
                 /\ call[c].resp.list[1] =
                      [id |-> Id(call[c].req.id),
                       name |-> call[c].req.body.name,
                       phone |-> call[c].req.body.phone,
                       email |-> Destructure(call[c].req.body).email])
    /\ [](\A c, d \in Clients :
            (/\ call[c].pc = "done" /\ call[c].req.op = PUT
             /\ ValidBody(call[c].req.body)
             /\ Answered(d, DELETE, 204)
             /\ call[d].req.id = call[c].req.id)
              => (Earlier(c, d) \/ call[c].resp.status = 404))
    /\ [][\A c \in Clients :
            /\ (InHandler(c) /\ call'[c] = call[c]) => rows' = rows
            /\ (call[c].pc # "done" /\ call'[c].pc = "done"
                  /\ call'[c].req.op = PUT /\ call'[c].resp.status = 200)
                 => \E k \in 1..Len(rows') :
                       Contact(rows'[k]) = call'[c].resp.list[1]]_vars

\* A DELETE has arrived for the id of a PUT that is between its check and
\* its update.
C10_Witness ==
    \E c, d \in Clients :
        /\ call[c].pc = "put_upd"
        /\ call[d].pc = "queued"
        /\ call[d].req = Request(DELETE, call[c].req.id, NoBody)

====
